---- MODULE Spec2Model ----
(***************************************************************************)
(* Model of src/app.py: the Q&A-mode image chat.  One Streamlit script run *)
(* is triggered per user event (Clear button, file uploader change, chat   *)
(* submit); the script reads the widgets, updates st.session_state and, on *)
(* a question, blocks on one chat() call to the model server.              *)
(***************************************************************************)
EXTENDS Integers, Sequences, FiniteSets, TLC

\* Bound on the number of chat() calls in one behaviour.
MaxCalls == 3

\* Python's None, and an attribute that was never set on st.session_state.
None == "None"
Unset == "Unset"

\* The file uploader's return value when it holds no file.
NoFile == [name |-> None, bytes |-> None]

\* Inputs: uploaded files (name, content), questions, model outcomes.
Names == {"dog.png", "cat.jpg"}
Contents == {"bytes1", "bytes2"}
Files == [name : Names, bytes : Contents]
Prompts == {"What breed?", "What colors?"}
Replies == {"A labrador.", ""}
Errors == {[type |-> "ConnectionError", args |-> <<"connection refused">>],
           [type |-> "Exception", args |-> <<>>]}

VARIABLES
    messages,        \* st.session_state.messages
    current_image,   \* st.session_state.current_image
    image_uploaded,  \* st.session_state.image_uploaded
    image_bytes,     \* st.session_state.image_bytes (Unset until first stored)
    uploaded_file,   \* the file the uploader widget holds (NoFile if none)
    pc,              \* "idle" between script runs, "calling" inside chat()
    prompt,          \* the question of the run that is inside chat()
    requests,        \* every request handed to chat(), in order
    event,           \* the event that triggered the latest script run
    pre              \* st.session_state and requests when that run started

vars == <<messages, current_image, image_uploaded, image_bytes, uploaded_file,
          pc, prompt, requests, event, pre>>

\* st.session_state as one value.
SessionState ==
    [messages |-> messages, current_image |-> current_image,
     image_uploaded |-> image_uploaded, image_bytes |-> image_bytes]

Snapshot == [state |-> SessionState, requests |-> requests]

\* Lines 19-24: the state the first script run creates.
InitialSessionState ==
    [messages |-> <<>>, current_image |-> None,
     image_uploaded |-> FALSE, image_bytes |-> Unset]

\* Line 78: the f-string of the upload announcement.
Announcement(name) ==
    "Image '" \o name \o "' uploaded successfully! Ask me anything about this image."

\* str(e) of a Python exception: its single argument, or "" without arguments.
Str(e) == IF Len(e.args) = 0 THEN "" ELSE e.args[1]

\* Line 129: the f-string of the diagnostic.
ErrorMessage(e) ==
    "Error: " \o Str(e)
        \o "\n\nMake sure Ollama is running and the 'gpt-oss:20b' model is installed."

\* Lines 46-48 with the history reset to a notice instead of the empty list.
ClearClicked_LeavesNotice(ss) ==
    [ss EXCEPT !.messages = <<[role |-> "assistant",
                               content |-> "Chat history cleared."]>>,
               !.current_image = None, !.image_uploaded = FALSE]

\* Lines 46-48 without line 47: the pinned name survives the clear.
ClearClicked_KeepsName(ss) ==
    [ss EXCEPT !.messages = <<>>, !.image_uploaded = FALSE]

\* Lines 46-48 without line 48: the flag survives the clear.
ClearClicked_KeepsFlag(ss) ==
    [ss EXCEPT !.messages = <<>>, !.current_image = None]

\* Lines 46-48: the body of the Clear Chat History button (before st.rerun()).
ClearClicked(ss) ==
    [ss EXCEPT !.messages = <<>>, !.current_image = None, !.image_uploaded = FALSE]

\* The upload handler with line 70 lost: a new image keeps the old conversation.
HandleUpload_KeepsHistory(ss, file) ==
    IF file # NoFile /\ ss.current_image # file.name
    THEN [ss EXCEPT
            !.current_image = file.name,
            !.image_uploaded = TRUE,
            !.image_bytes = file.bytes,
            !.messages = Append(@, [role |-> "assistant",
                                    content |-> Announcement(file.name)])]
    ELSE ss

\* The upload handler with the test of line 67 lost: every run that sees a file
\* pins it again.
HandleUpload_NoNameTest(ss, file) ==
    IF file # NoFile
    THEN [ss EXCEPT
            !.current_image = file.name,
            !.image_uploaded = TRUE,
            !.image_bytes = file.bytes,
            !.messages = <<[role |-> "assistant",
                            content |-> Announcement(file.name)]>>]
    ELSE ss

\* The upload handler with line 73 moved out of the test of line 67: the bytes
\* are stored in every run that sees a file.
HandleUpload_AlwaysStoresBytes(ss, file) ==
    IF file # NoFile
    THEN IF ss.current_image # file.name
         THEN [ss EXCEPT
                 !.current_image = file.name,
                 !.image_uploaded = TRUE,
                 !.image_bytes = file.bytes,
                 !.messages = <<[role |-> "assistant",
                                 content |-> Announcement(file.name)]>>]
         ELSE [ss EXCEPT !.image_bytes = file.bytes]
    ELSE ss

\* The upload handler with an else branch for line 63 that unpins the image
\* when the uploader holds no file.
HandleUpload_UnpinsWithoutFile(ss, file) ==
    IF file # NoFile
    THEN IF ss.current_image # file.name
         THEN [ss EXCEPT
                 !.current_image = file.name,
                 !.image_uploaded = TRUE,
                 !.image_bytes = file.bytes,
                 !.messages = <<[role |-> "assistant",
                                 content |-> Announcement(file.name)]>>]
         ELSE ss
    ELSE [ss EXCEPT !.current_image = None, !.image_uploaded = FALSE]

\* Lines 63-79: the upload handler, run in every script run.
HandleUpload(ss, file) ==
    IF file # NoFile
    THEN IF ss.current_image # file.name
         THEN [ss EXCEPT
                 !.current_image = file.name,
                 !.image_uploaded = TRUE,
                 !.image_bytes = file.bytes,
                 !.messages = <<[role |-> "assistant",
                                 content |-> Announcement(file.name)]>>]
         ELSE ss
    ELSE ss

\* Line 92 lost: the chat input is always rendered.
ChatInputShown_Always(ss) == TRUE

\* Line 92: the chat input is rendered only while an image is uploaded.
ChatInputShown(ss) == ss.image_uploaded

\* Lines 95-98 with insert(0, ...) for append: the question goes to the front.
UserTurn_AtFront(ss, q) ==
    [ss EXCEPT !.messages = <<[role |-> "user", content |-> q]>> \o @]

\* Lines 95-98: the user's turn.
UserTurn(ss, q) ==
    [ss EXCEPT !.messages = Append(@, [role |-> "user", content |-> q])]

\* Lines 109-116 sending the conversation so far, with the image on the last
\* message: a multi-turn request built from st.session_state.messages.
ChatRequest_WithHistory(ss, q) ==
    [model |-> "gpt-oss:20b",
     messages |->
        [i \in 1..Len(ss.messages) |->
            [role |-> ss.messages[i].role, content |-> ss.messages[i].content,
             images |-> IF i = Len(ss.messages)
                        THEN <<ss.image_bytes>> ELSE <<>>]]]

\* Lines 109-116: the request handed to chat().
ChatRequest(ss, q) ==
    [model |-> "gpt-oss:20b",
     messages |-> <<[role |-> "user", content |-> q,
                     images |-> <<ss.image_bytes>>]>>]

\* Lines 119-126 with the reply stored under the user's role.
OnResponse_WrongRole(ss, content) ==
    [ss EXCEPT !.messages = Append(@, [role |-> "user", content |-> content])]

\* Lines 119-126: the reply is appended as the assistant's turn.
OnResponse(ss, content) ==
    [ss EXCEPT !.messages = Append(@, [role |-> "assistant", content |-> content])]

\* Lines 128-136 without lines 133-136: the error is shown but not recorded.
OnException_NotRecorded(ss, e) == ss

\* Lines 128-136: any Exception becomes one assistant turn.
OnException(ss, e) ==
    [ss EXCEPT !.messages =
        Append(@, [role |-> "assistant", content |-> ErrorMessage(e)])]

Store(ss) ==
    /\ messages' = ss.messages
    /\ current_image' = ss.current_image
    /\ image_uploaded' = ss.image_uploaded
    /\ image_bytes' = ss.image_bytes

\* Line 49: st.rerun() ends this run and runs the script again from the top:
\* the button now reads False and the chat input returns nothing, so only the
\* upload handler (lines 63-79) can act, on the file the uploader returns.
Rerun(ss, file) == HandleUpload(ss, file)

\* What the uploader (line 56) can return in the run started by st.rerun().
\* The run that called st.rerun() at line 49 ended before line 56 created the
\* uploader.  app.py does not decide whether the widget's value outlives such a
\* run: Streamlit either keeps it, and the rerun sees the same file, or drops
\* the state of a widget the ended run did not create, and the rerun (and every
\* later run until the next upload) sees no file.
UploaderAfterRerun(file) == {file, NoFile}

\* The script with chat() made non-blocking: a new run starts while the call is
\* still outstanding.
AcceptsEvent_DuringCall == TRUE

\* Lines 93-136 are straight-line code around the synchronous chat() call (line
\* 109): the run that handles a question ends only after line 123 or line 133,
\* and the widgets are read again only by the next run of the script.
AcceptsEvent == pc = "idle"

NoError == [type |-> None, args |-> <<>>]

Event(kind, file, q, result, reply, raised) ==
    [kind |-> kind, file |-> file, prompt |-> q,
     result |-> result, reply |-> reply, raised |-> raised]

Init ==
    /\ messages = InitialSessionState.messages
    /\ current_image = InitialSessionState.current_image
    /\ image_uploaded = InitialSessionState.image_uploaded
    /\ image_bytes = InitialSessionState.image_bytes
    /\ uploaded_file = NoFile
    /\ pc = "idle"
    /\ prompt = None
    /\ requests = <<>>
    /\ event = Event("start", NoFile, None, "done", None, NoError)
    /\ pre = [state |-> InitialSessionState, requests |-> <<>>]

\* The user clicks Clear Chat History: lines 45-49, then the rerun.
ClearChatHistory ==
    /\ AcceptsEvent
    /\ \E file \in UploaderAfterRerun(uploaded_file) :
          /\ uploaded_file' = file
          /\ Store(Rerun(ClearClicked(SessionState), file))
    /\ event' = Event("clear", NoFile, None, "done", None, NoError)
    /\ pre' = Snapshot
    /\ UNCHANGED <<pc, prompt, requests>>

\* The user puts a file into the uploader: lines 56-79; no question is pending
\* in this run, so the chat input (line 93) returns nothing.
Upload(file) ==
    /\ AcceptsEvent
    /\ uploaded_file' = file
    /\ Store(HandleUpload(SessionState, file))
    /\ event' = Event("upload", file, None, "done", None, NoError)
    /\ pre' = Snapshot
    /\ UNCHANGED <<pc, prompt, requests>>

\* The user removes the file from the uploader: the run sees uploaded_file None.
RemoveFile ==
    /\ AcceptsEvent
    /\ uploaded_file # NoFile
    /\ uploaded_file' = NoFile
    /\ Store(HandleUpload(SessionState, NoFile))
    /\ event' = Event("remove", NoFile, None, "done", None, NoError)
    /\ pre' = Snapshot
    /\ UNCHANGED <<pc, prompt, requests>>

\* The user submits question q: the run passes the upload handler (lines 63-79),
\* then lines 92-116 up to the blocking chat() call.  Where line 92 is false the
\* chat input does not exist and the run ends in the else branch (line 137).
Ask(q) ==
    /\ AcceptsEvent
    /\ LET ss == HandleUpload(SessionState, uploaded_file) IN
       IF ChatInputShown(ss)
       THEN /\ Len(requests) < MaxCalls
            /\ Store(UserTurn(ss, q))
            /\ requests' = Append(requests, ChatRequest(ss, q))
            /\ pc' = "calling"
            /\ prompt' = q
            /\ event' = Event("ask", NoFile, q, "pending", None, NoError)
       ELSE /\ Store(ss)
            /\ event' = Event("ask", NoFile, q, "rejected", None, NoError)
            /\ UNCHANGED <<pc, prompt, requests>>
    /\ pre' = Snapshot
    /\ UNCHANGED uploaded_file

\* chat() returns: lines 119-126.
ModelReturns(content) ==
    /\ pc = "calling"
    /\ Store(OnResponse(SessionState, content))
    /\ pc' = "idle"
    /\ prompt' = None
    /\ event' = [event EXCEPT !.result = "ok", !.reply = content]
    /\ UNCHANGED <<uploaded_file, requests, pre>>

\* chat() raises: lines 128-136.
ModelRaises(e) ==
    /\ pc = "calling"
    /\ Store(OnException(SessionState, e))
    /\ pc' = "idle"
    /\ prompt' = None
    /\ event' = [event EXCEPT !.result = "error", !.raised = e]
    /\ UNCHANGED <<uploaded_file, requests, pre>>

Next ==
    \/ ClearChatHistory
    \/ \E file \in Files : Upload(file)
    \/ RemoveFile
    \/ \E q \in Prompts : Ask(q)
    \/ \E content \in Replies : ModelReturns(content)
    \/ \E e \in Errors : ModelRaises(e)

Spec == Init /\ [][Next]_vars

TypeOK ==
    /\ current_image \in Names \cup {None}
    /\ image_uploaded \in BOOLEAN
    /\ image_bytes \in Contents \cup {Unset}
    /\ uploaded_file \in Files \cup {NoFile}
    /\ pc \in {"idle", "calling"}
    /\ Len(requests) <= MaxCalls


----------------------------------------------------------------------------
(* Properties.  event and pre describe the latest script run: what triggered *)
(* it and st.session_state when it started.                                  *)

IsPrefix(s, t) == Len(s) <= Len(t) /\ SubSeq(t, 1, Len(s)) = s
StartsWith(str, p) == Len(p) <= Len(str) /\ SubSeq(str, 1, Len(p)) = p
EndsWith(str, p) ==
    Len(p) <= Len(str) /\ SubSeq(str, Len(str) - Len(p) + 1, Len(str)) = p

\* The upload that triggered the latest run named a file other than the pinned
\* one (or nothing was pinned).
UploadedNewName ==
    event.kind = "upload" /\ event.file.name # pre.state.current_image

UploadedSameName ==
    event.kind = "upload" /\ event.file.name = pre.state.current_image

\* C1: after an upload whose name differs from the pinned name (or with nothing
\* pinned) the Session is exactly the one assistant announcement naming the new
\* file, and the pinned image is that file's name and bytes.
C1_NewNameResetsAndPins ==
    UploadedNewName =>
        /\ messages =
             <<[role |-> "assistant",
                content |-> "Image '" \o event.file.name
                    \o "' uploaded successfully! Ask me anything about this image."]>>
        /\ current_image = event.file.name
        /\ image_bytes = event.file.bytes
        /\ image_uploaded

C1_Witness ==
    /\ UploadedNewName
    /\ pre.state.current_image # None
    /\ Len(pre.state.messages) >= 3

\* C2: an upload whose name equals the pinned name changes nothing: the Session,
\* the pinned name and the pinned bytes are as before, whatever the new bytes.
C2_SameNameIsNoOp ==
    UploadedSameName =>
        /\ messages = pre.state.messages
        /\ current_image = pre.state.current_image
        /\ image_bytes = pre.state.image_bytes
        /\ image_uploaded = pre.state.image_uploaded

C2_Witness ==
    /\ UploadedSameName
    /\ event.file.bytes # image_bytes
    /\ Len(messages) >= 5

\* C3: once a clear taken with an image pinned has been processed, rerun
\* included, the Session is empty, no image is pinned and no question is accepted.
C3_ClearLeadsToNoImage ==
    (event.kind = "clear" /\ pre.state.current_image # None) =>
        /\ messages = <<>>
        /\ current_image = None
        /\ ~ChatInputShown(SessionState)

\* C4: an ask event in a state where no image is pinned produces no Turn and no
\* model call.
C4_NoPinNoQuestion ==
    (event.kind = "ask" /\ pre.state.current_image = None) =>
        /\ messages = pre.state.messages
        /\ requests = pre.requests
        /\ pc = "idle"

C4_Witness ==
    /\ event.kind = "ask"
    /\ pre.state.current_image = None
    /\ pre.state.image_bytes # Unset

\* The diagnostic for an exception whose string form is str.
Diagnostic(text, str) ==
    /\ StartsWith(text, "Error: " \o str)
    /\ EndsWith(text,
         "Make sure Ollama is running and the 'gpt-oss:20b' model is installed.")

\* str() of the recorded exception, read off its arguments.
RaisedStr == IF event.raised.args = <<>> THEN "" ELSE event.raised.args[1]

\* C5: when the model call of a question raises, the Session is the earlier
\* Session, the question's user Turn and exactly one assistant Turn holding the
\* diagnostic; one request was made (no retry), the handler has returned, and
\* the same image is still pinned with question input open.
C5_FailureIsOneDiagnosticTurn ==
    (event.kind = "ask" /\ event.result = "error") =>
        /\ Len(messages) = Len(pre.state.messages) + 2
        /\ SubSeq(messages, 1, Len(messages) - 1) =
              Append(pre.state.messages, [role |-> "user", content |-> event.prompt])
        /\ messages[Len(messages)].role = "assistant"
        /\ Diagnostic(messages[Len(messages)].content, RaisedStr)
        /\ Len(requests) = Len(pre.requests) + 1
        /\ pc = "idle"
        /\ ChatInputShown(SessionState)
        /\ current_image # None
        /\ current_image = pre.state.current_image
        /\ image_bytes = pre.state.image_bytes

C5_Witness ==
    /\ event.kind = "ask"
    /\ event.result = "error"
    /\ event.raised.args # <<>>
    /\ Len(pre.state.messages) >= 3

\* C6: a question whose model call succeeds extends the Session by exactly the
\* user Turn with the question (role and text only, no image) and the assistant
\* Turn with the model's text; earlier Turns and the pinned image are unchanged.
C6_SuccessAppendsQuestionAndAnswer ==
    (event.kind = "ask" /\ event.result = "ok") =>
        /\ pre.state.current_image # None
        /\ messages = pre.state.messages \o
              <<[role |-> "user", content |-> event.prompt],
                [role |-> "assistant", content |-> event.reply]>>
        /\ current_image = pre.state.current_image
        /\ image_bytes = pre.state.image_bytes

C6_Witness ==
    /\ event.kind = "ask"
    /\ event.result = "ok"
    /\ event.reply # ""
    /\ Len(pre.state.messages) = 1

\* C7: a run makes a model request only for an accepted question, and then
\* exactly one: a single user message with the question's text and the pinned
\* bytes, whatever the Session holds; uploads, removals and clears make none.
C7_OneRequestPerQuestion ==
    IF event.kind = "ask" /\ event.result # "rejected"
    THEN /\ Len(requests) = Len(pre.requests) + 1
         /\ SubSeq(requests, 1, Len(pre.requests)) = pre.requests
         /\ requests[Len(requests)].messages =
               <<[role |-> "user", content |-> event.prompt,
                  images |-> <<pre.state.image_bytes>>]>>
    ELSE requests = pre.requests

C7_Witness ==
    /\ event.kind = "ask"
    /\ event.result = "ok"
    /\ Len(pre.state.messages) >= 3
    /\ Len(requests) >= 2

\* The step is a run triggered by a clear, or by an upload of a name other than
\* the pinned one.
ResetStep ==
    \/ event'.kind = "clear"
    \/ event'.kind = "upload" /\ event'.file.name # current_image

\* C8: every step other than a clear or an upload of a different name leaves
\* the earlier Session as a prefix of the later one.
C8_AppendOnly == [][ResetStep \/ IsPrefix(messages, messages')]_vars

C8_Witness ==
    /\ event.kind = "ask"
    /\ event.result = "error"
    /\ Len(pre.state.messages) >= 5

\* C9: every step other than a clear or an upload of a different name keeps the
\* pinned name and bytes, and a request made in the step carries those bytes.
C9_PinnedPairStable ==
    [][ResetStep \/
         /\ current_image' = current_image
         /\ image_bytes' = image_bytes
         /\ requests' # requests =>
               requests'[Len(requests')].messages[1].images = <<image_bytes>>]_vars

C9_Witness ==
    /\ event.kind = "ask"
    /\ event.result = "ok"
    /\ uploaded_file # NoFile
    /\ uploaded_file.name = current_image
    /\ uploaded_file.bytes # image_bytes
    /\ requests[Len(requests)].messages[1].images = <<image_bytes>>

\* C10: after a clear neither the pinned name nor the pinned bytes remain in
\* st.session_state.
C10_ClearDiscardsPinnedImage ==
    event.kind = "clear" =>
        /\ current_image = None
        /\ image_bytes = Unset

C12_ClearOnEmptyStaysEmpty ==
    (event.kind = "clear" /\ pre.state.messages = <<>>) => messages = <<>>

C12_Witness ==
    /\ event.kind = "clear"
    /\ pre.state.messages = <<>>
    /\ pre.state.image_bytes # Unset

\* Turns 2.. of the Session alternate user, assistant.
Alternates(s) ==
    \A i \in 2..Len(s) :
        s[i].role = IF i % 2 = 0 THEN "user" ELSE "assistant"

\* C13: between events the Session is non-empty exactly when an image is
\* pinned; then its first Turn is the assistant announcement naming the pinned
\* image, the later Turns alternate user, assistant, and the length is odd.
C13_SessionShape ==
    pc = "idle" =>
        /\ (messages # <<>>) <=> (current_image # None)
        /\ messages # <<>> =>
              /\ messages[1] =
                    [role |-> "assistant",
                     content |-> "Image '" \o current_image
                        \o "' uploaded successfully! Ask me anything about this image."]
              /\ Alternates(messages)
              /\ Len(messages) % 2 = 1

C13_Witness ==
    /\ pc = "idle"
    /\ Len(messages) >= 5
    /\ event.kind = "upload"

\* C14: the flag is true exactly when a name is pinned, the bytes are stored
\* whenever it is true, and no request was ever made without bytes to attach.
C14_FlagMatchesPin ==
    /\ image_uploaded <=> (current_image # None)
    /\ image_uploaded => image_bytes \in Contents
    /\ \A i \in 1..Len(requests) :
          /\ Len(requests[i].messages[1].images) = 1
          /\ requests[i].messages[1].images[1] \in Contents

C14_Witness ==
    /\ pc = "calling"
    /\ pre.state.image_uploaded
    /\ pre.requests # <<>>
    /\ image_bytes # uploaded_file.bytes

\* C15: a run in which the uploader holds no file and neither a question nor a
\* clear is submitted leaves the Session, the pinned name and bytes and the
\* flag as they were; a pinned image stays pinned with question input open.
C15_NoFileRunChangesNothing ==
    event.kind = "remove" =>
        /\ messages = pre.state.messages
        /\ current_image = pre.state.current_image
        /\ image_bytes = pre.state.image_bytes
        /\ image_uploaded = pre.state.image_uploaded
        /\ uploaded_file = NoFile
        /\ pre.state.current_image # None => ChatInputShown(SessionState)

C15_Witness ==
    /\ event.kind = "remove"
    /\ current_image # None
    /\ Len(messages) >= 3

====
